---- MODULE Spec2Model ----
(***************************************************************************)
(* A model of wise_api/client.py: the request executor APIClient.get with  *)
(* its Strong Customer Authentication (SCA) sign-and-replay step, the thin *)
(* endpoint methods that call it, and the generator get_activities that    *)
(* follows a cursor over pages.                                            *)
(*                                                                         *)
(* The network (requests.Session.get) is the environment: every response   *)
(* is chosen by the server from a bounded set.  A call of get is a         *)
(* sequence of steps, one per network round trip, so that the per-call     *)
(* machine INITIAL -> RESPONDED -> REPLAYED -> terminal is visible.        *)
(***************************************************************************)
EXTENDS Integers, Sequences, FiniteSets, TLC

VARIABLES
    production,   \* self.production
    api_key,      \* self.api_key
    signing_key,  \* self.signing_key
    caller,       \* the public operation that is running get, or "none"
    pc,           \* the state of the current call of get
    url,          \* get: local url
    params,       \* get: local params
    headers,      \* get: local headers (a dict, mutated by the SCA step)
    resp,         \* get: local resp, the latest response
    resp1,        \* history: the first response of the current call
    sent,         \* history: the requests this call has put on the session
    signed,       \* history: the signer invocations of this call
    result,       \* the value get returned
    opRequests,   \* history: requests sent since the endpoint method began
    iters,        \* the generator objects the consumer may hold at a time
    gen,          \* the frame of each get_activities generator
    yielded,      \* history: the records each generator handed to the consumer
    pageReqs,     \* history: the params of each call of get a generator made
    pages,        \* history: the bodies get returned to each generator
    requests,     \* history: the requests sent on behalf of each generator
    pulls,        \* history: the next() calls the consumer made on each generator
    bases,        \* history: the base URLs this client has sent requests to
    server        \* the kind of server the client talks to

vars == <<production, api_key, signing_key, caller, pc, url, params, headers,
          resp, resp1, sent, signed, result, opRequests, iters, gen, yielded,
          pageReqs, pages, requests, pulls, bases, server>>

clientVars == <<production, api_key, signing_key, iters, server>>
genVars == <<gen, yielded, pageReqs, pages>>

\* the generator objects: at most this many are alive at a time
Iters == {1, 2}

-----------------------------------------------------------------------------
(* Bounds *)

\* the generator issues at most this many calls of get
MaxPages == 2

-----------------------------------------------------------------------------
(* Python values *)

\* Python's None; no header value, cursor or argument drawn below equals it
None == "None"

\* a Python dict is a function from its keys
EmptyDict == [k \in {} |-> None]

\* dict.get(key, default)
Get(d, key, default) == IF key \in DOMAIN d THEN d[key] ELSE default

\* d[key] = value on a dict
Put(d, key, value) == [k \in DOMAIN d \cup {key} |-> IF k = key THEN value ELSE d[k]]

\* a slip: only None counts as no value, the empty string does not
TruthyNotNone(v) == v # None

\* Python truthiness of an optional string
Truthy(v) == v # None /\ v # ""

-----------------------------------------------------------------------------
(* The client *)

ApiKeys == {"api-key-1"}
SigningKeys == {"signing-key-1"}

sandbox_url == "https://api.sandbox.transferwise.tech"
production_url == "https://api.transferwise.com"

\* a slip: the test of the flag is inverted
base_url_inverted == IF production THEN sandbox_url ELSE production_url

\* the base_url property
base_url == IF ~production THEN sandbox_url ELSE production_url

\* crypto.sign_approval_token: an opaque function of the key and the token
sign_approval_token(key, token) == <<"signature", key, token>>

-----------------------------------------------------------------------------
(* Responses *)

NoResp == [status_code |-> 0, headers |-> EmptyDict, body |-> [json |-> FALSE, data |-> EmptyDict]]

Statuses == {100, 200, 301, 400, 403, 500}

Tokens == {"t1", "t2"}

\* the two headers the client reads, each absent or present
ResponseHeaders ==
    { [k \in ks |-> IF k = "x-2fa-approval-result" THEN ar ELSE tk] :
        ks \in SUBSET {"x-2fa-approval-result", "x-2fa-approval"},
        ar \in {"REJECTED", "APPROVED"}, tk \in Tokens }

\* a body is JSON text of an object, or no JSON at all (empty, pdf, csv)
JsonBody(d) == [json |-> TRUE, data |-> d]
TextBody == [json |-> FALSE, data |-> EmptyDict]

PlainBodies == {JsonBody([id |-> "7"]), JsonBody([error |-> "denied"]), TextBody}

Responses(bodies, statuses) ==
    [status_code : statuses, headers : ResponseHeaders, body : bodies]

\* a slip: the status alone decides
sca_required_status_only(r) == r.status_code = 403

\* a slip: the header alone decides
sca_required_header_only(r) ==
    Get(r.headers, "x-2fa-approval-result", None) = "REJECTED"

sca_required(r) ==
    /\ r.status_code = 403
    /\ Get(r.headers, "x-2fa-approval-result", None) = "REJECTED"

\* a slip: every status outside 2xx raises
raise_for_status_non_2xx(r) == r.status_code < 200 \/ r.status_code >= 300

\* requests.Response.raise_for_status raises HTTPError for 4xx and 5xx only
raise_for_status(r) == r.status_code >= 400 /\ r.status_code < 600

\* requests.Response.json: whether the body decodes, and to what
json_ok(r) == r.body.json
json(r) == r.body.data

-----------------------------------------------------------------------------
(* APIClient.get *)

\* an optional params argument: None, or a dict
NoParams == [isNone |-> TRUE, value |-> EmptyDict]
SomeParams(d) == [isNone |-> FALSE, value |-> d]

NoResult == [unset |-> TRUE]

\* url = self.base_url + path
Url(path) == [base |-> base_url, path |-> path]

\* session.get(url, headers=headers, params=params) as the server sees it
Request(u, h, p) == [method |-> "GET", url |-> u, headers |-> h, params |-> p]

Bearer(key) == <<"Bearer ", key>>

InitialHeaders == [authorization |-> Bearer(api_key)]

\* a slip: the signature header is not set
ReplayHeadersNoSignature(h, token, signature) == Put(h, "x-2fa-approval", token)

\* a slip: the replay's headers are built afresh, the authorization lost
ReplayHeadersFresh(h, token, signature) ==
    Put(Put(EmptyDict, "x-2fa-approval", token), "x-signature", signature)

\* the two assignments that prepare the replay's headers
ReplayHeaders(h, token, signature) ==
    Put(Put(h, "x-2fa-approval", token), "x-signature", signature)

Running == {"INITIAL", "RESPONDED", "REPLAYED"}
Failed == {"REJECTED_SCA", "HTTP_ERROR", "KEY_ERROR", "JSON_ERROR"}
Terminal == {"SUCCESS"} \cup Failed

\* a slip: the SCA branch as a loop, taken on every challenge
BranchLoop(state, r) == IF sca_required(r) THEN "sca" ELSE "status"

\* what get does with the response it holds: the SCA branch is an if, taken
\* on the first response only, never a loop
Branch(state, r) ==
    IF state = "RESPONDED" /\ sca_required(r) THEN "sca" ELSE "status"

\* a slip: the 400 test of the SCA branch is missing
OutcomeNo400Test(state, r) ==
    IF raise_for_status(r) THEN "HTTP_ERROR"
    ELSE IF ~json_ok(r) THEN "JSON_ERROR"
    ELSE "SUCCESS"

\* a slip: the 400 test stands outside the SCA branch
Outcome400Anywhere(state, r) ==
    IF r.status_code = 400 THEN "REJECTED_SCA"
    ELSE IF raise_for_status(r) THEN "HTTP_ERROR"
    ELSE IF ~json_ok(r) THEN "JSON_ERROR"
    ELSE "SUCCESS"

\* the end of get: the 400 test of the SCA branch, raise_for_status, json
Outcome(state, r) ==
    IF state = "REPLAYED" /\ r.status_code = 400 THEN "REJECTED_SCA"
    ELSE IF raise_for_status(r) THEN "HTTP_ERROR"
    ELSE IF ~json_ok(r) THEN "JSON_ERROR"
    ELSE "SUCCESS"

\* the pages of the activities endpoint: "activities" and "cursor", each
\* absent or present; a cursor may be null or empty
PageDicts ==
    { [k \in ks |-> IF k = "activities" THEN acts ELSE cur] :
        ks \in SUBSET {"activities", "cursor"},
        acts \in {<<>>, <<"a">>, <<"b", "a">>},
        cur \in {None, "", "c1", "c2"} }

PageHeaders ==
    { h \in ResponseHeaders : \A k \in DOMAIN h : h[k] \in {"REJECTED", "t1"} }

\* the activities endpoint answers 200 with a page (or with no JSON), or
\* refuses with 400 or 403
PageResponses ==
    [status_code : {200}, headers : PageHeaders,
     body : {JsonBody(d) : d \in PageDicts} \cup {TextBody}]
    \cup [status_code : {400, 403}, headers : PageHeaders,
          body : {JsonBody([error |-> "denied"])}]

\* a server whose every page carries the same non-empty cursor
SameCursorResponses ==
    [status_code : {200}, headers : {EmptyDict},
     body : {JsonBody(d) : d \in {pd \in PageDicts :
                 "cursor" \in DOMAIN pd /\ pd["cursor"] = "c1"}}]

\* a server with few pages, and one refusal
SmallResponses ==
    [status_code : {200}, headers : {EmptyDict},
     body : {JsonBody(d) : d \in {[activities |-> <<"a">>, cursor |-> "c1"],
                                  [activities |-> <<"b", "a">>, cursor |-> "c2"],
                                  [activities |-> <<"a">>]}}]
    \cup [status_code : {400}, headers : {EmptyDict},
          body : {JsonBody([error |-> "denied"])}]

\* the responses the server may give to the request in flight
ServerResponses ==
    IF server = "same_cursor" THEN SameCursorResponses
    ELSE IF server = "small" THEN SmallResponses
    ELSE IF caller = "get_activities" THEN PageResponses
    ELSE Responses(PlainBodies, Statuses)

\* one more request is on the wire, on behalf of the endpoint method or of
\* the generator that called get
CountRequest ==
    /\ bases' = bases \cup {url.base}
    /\ IF caller = "get_activities"
       THEN /\ requests' = [i \in Iters |->
                   IF gen[i].state = "running" THEN requests[i] + 1 ELSE requests[i]]
            /\ opRequests' = opRequests
       ELSE /\ opRequests' = opRequests + 1
            /\ requests' = requests

\* a caller enters get(path, params): the locals before the first request
get(op, path, ps) ==
    /\ caller' = op
    /\ url' = Url(path)
    /\ headers' = InitialHeaders
    /\ params' = IF ps.isNone THEN EmptyDict ELSE ps.value
    /\ pc' = "INITIAL"
    /\ resp' = NoResp
    /\ resp1' = NoResp
    /\ sent' = <<>>
    /\ signed' = <<>>
    /\ result' = NoResult

\* resp = self.session.get(url, headers=headers, params=params)
SendOriginal ==
    /\ pc = "INITIAL"
    /\ \E r \in ServerResponses :
        /\ resp' = r
        /\ resp1' = r
    /\ sent' = Append(sent, Request(url, headers, params))
    /\ CountRequest
    /\ pc' = "RESPONDED"
    /\ UNCHANGED <<clientVars, caller, url, params, headers, signed, result, genVars, pulls>>

\* the SCA branch up to the replay: token, signature, headers, second request
SignAndReplay ==
    /\ pc \in {"RESPONDED", "REPLAYED"}
    /\ Branch(pc, resp) = "sca"
    /\ "x-2fa-approval" \in DOMAIN resp.headers
    /\ LET token == resp.headers["x-2fa-approval"]
           signature == sign_approval_token(signing_key, token)
           h == ReplayHeaders(headers, token, signature)
       IN  /\ signed' = Append(signed, <<signing_key, token>>)
           /\ headers' = h
           /\ sent' = Append(sent, Request(url, h, params))
    /\ \E r \in ServerResponses : resp' = r
    /\ CountRequest
    /\ pc' = "REPLAYED"
    /\ UNCHANGED <<clientVars, caller, url, params, resp1, result, genVars, pulls>>

\* a slip: the token is read with headers.get, and None is signed and sent
TokenMissingReplays ==
    /\ pc \in {"RESPONDED", "REPLAYED"}
    /\ Branch(pc, resp) = "sca"
    /\ "x-2fa-approval" \notin DOMAIN resp.headers
    /\ LET signature == sign_approval_token(signing_key, None)
           h == ReplayHeaders(headers, None, signature)
       IN  /\ signed' = Append(signed, <<signing_key, None>>)
           /\ headers' = h
           /\ sent' = Append(sent, Request(url, h, params))
    /\ \E r \in ServerResponses : resp' = r
    /\ CountRequest
    /\ pc' = "REPLAYED"
    /\ UNCHANGED <<clientVars, caller, url, params, resp1, result, genVars, pulls>>

\* resp.headers["x-2fa-approval"] on a challenge without that header: KeyError
TokenMissing ==
    /\ pc \in {"RESPONDED", "REPLAYED"}
    /\ Branch(pc, resp) = "sca"
    /\ "x-2fa-approval" \notin DOMAIN resp.headers
    /\ pc' = "KEY_ERROR"
    /\ UNCHANGED <<clientVars, caller, url, params, headers, resp, resp1, sent,
                   signed, result, opRequests, requests, genVars, pulls, bases>>

\* a slip: a call that raises leaves the parsed body behind as well
FinishKeepsBody ==
    /\ pc \in {"RESPONDED", "REPLAYED"}
    /\ Branch(pc, resp) = "status"
    /\ pc' = Outcome(pc, resp)
    /\ result' = IF json_ok(resp) THEN json(resp) ELSE NoResult
    /\ UNCHANGED <<clientVars, caller, url, params, headers, resp, resp1, sent,
                   signed, opRequests, requests, genVars, pulls, bases>>

\* the 400 test after a replay, raise_for_status, return resp.json()
Finish ==
    /\ pc \in {"RESPONDED", "REPLAYED"}
    /\ Branch(pc, resp) = "status"
    /\ pc' = Outcome(pc, resp)
    /\ result' = IF Outcome(pc, resp) = "SUCCESS" THEN json(resp) ELSE NoResult
    /\ UNCHANGED <<clientVars, caller, url, params, headers, resp, resp1, sent,
                   signed, opRequests, requests, genVars, pulls, bases>>


\* get has returned or raised: its frame is gone
PopFrame ==
    /\ caller' = "none"
    /\ pc' = "IDLE"
    /\ url' = Url("")
    /\ params' = EmptyDict
    /\ headers' = EmptyDict
    /\ resp' = NoResp
    /\ resp1' = NoResp
    /\ sent' = <<>>
    /\ signed' = <<>>
    /\ result' = NoResult

getVars == <<caller, pc, url, params, headers, resp, resp1, sent, signed, result>>

-----------------------------------------------------------------------------
(* The endpoint methods: each is one call of get *)

Ids == {"41", "42"}

TransferPath(id) == IF id = "41" THEN "/v1/transfers/41" ELSE "/v1/transfers/42"

\* nothing is executing: the consumer has the control
Quiet == pc = "IDLE"

NoArgs ==
    [profile_id |-> "41", monetary_resource_type |-> None, status |-> None,
     since |-> None, until |-> None, size |-> [isNone |-> TRUE, value |-> 0]]

NoGen ==
    [state |-> "none", args |-> NoArgs, params |-> EmptyDict, next_cursor |-> None,
     response_data |-> EmptyDict, activities |-> <<>>, idx |-> 0, error |-> None]

\* the consumer turns to an endpoint method: it holds no generator any more
DropGenerators ==
    /\ gen' = [i \in Iters |-> NoGen]
    /\ yielded' = [i \in Iters |-> <<>>]
    /\ pageReqs' = [i \in Iters |-> <<>>]
    /\ pages' = [i \in Iters |-> <<>>]
    /\ requests' = [i \in Iters |-> 0]
    /\ pulls' = [i \in Iters |-> 0]

get_current_user ==
    /\ Quiet
    /\ get("get_current_user", "/v1/me", NoParams)
    /\ opRequests' = 0
    /\ DropGenerators
    /\ UNCHANGED <<clientVars, bases>>

get_borderless_accounts ==
    /\ Quiet
    /\ \E profile_id \in Ids :
        get("get_borderless_accounts", "/v1/borderless-accounts",
            SomeParams([profileId |-> profile_id]))
    /\ opRequests' = 0
    /\ DropGenerators
    /\ UNCHANGED <<clientVars, bases>>

get_transfer_by_id ==
    /\ Quiet
    /\ \E transfer_id \in Ids :
        get("get_transfer_by_id", TransferPath(transfer_id), NoParams)
    /\ opRequests' = 0
    /\ DropGenerators
    /\ UNCHANGED <<clientVars, bases>>

\* get hands its value or its exception to the endpoint method's caller
Return ==
    /\ pc \in Terminal
    /\ caller # "get_activities"
    /\ PopFrame
    /\ UNCHANGED <<clientVars, opRequests, requests, genVars, pulls, bases>>

-----------------------------------------------------------------------------
(* get_activities: a generator.  Calling it runs none of its body; the     *)
(* body runs inside the consumer's next(), from the start or from the last *)
(* yield to the next yield, to the end, or to an exception.                *)

Some(v) == [isNone |-> FALSE, value |-> v]
NoSize == [isNone |-> TRUE, value |-> 0]

\* utils.zulu_time: the timestamp as ISO-8601 UTC text with a Z suffix
zulu_time(dt) == IF dt = "2024-01-01 00:00:00" THEN "2024-01-01T00:00:00Z"
                 ELSE "2024-01-31T23:59:59Z"

Args(profile_id, mrt, status, since, until, size) ==
    [profile_id |-> profile_id, monetary_resource_type |-> mrt, status |-> status,
     since |-> since, until |-> until, size |-> size]

\* the argument lists the consumer calls get_activities with
ActivityArgs ==
    { Args("41", None, None, None, None, NoSize),
      Args("42", "BALANCE", "", "2024-01-01 00:00:00", "2024-01-31 23:59:59", Some(1)),
      Args("41", None, "COMPLETED", None, None, Some(100)),
      Args("41", None, None, None, None, Some(0)),
      Args("42", None, "COMPLETED", None, None, Some(101)),
      Args("41", None, None, None, None, Some(-1)) }

ActivitiesPath(profile_id) ==
    IF profile_id = "41" THEN "/v1/profiles/41/activities"
    ELSE "/v1/profiles/42/activities"

\* a slip: the lower limit is off by one
SizeInRangeFromZero(size) == 0 <= size /\ size <= 100

\* 1 <= size <= 100, asked only of a size that is given
SizeInRange(size) == 1 <= size /\ size <= 100

\* params = {} and the four truthiness tests that fill it
FilterParams(a) ==
    LET p1 == IF Truthy(a.monetary_resource_type)
              THEN Put(EmptyDict, "monetaryResourceType", a.monetary_resource_type)
              ELSE EmptyDict
        p2 == IF Truthy(a.status) THEN Put(p1, "status", a.status) ELSE p1
        p3 == IF Truthy(a.since) THEN Put(p2, "since", zulu_time(a.since)) ELSE p2
        p4 == IF Truthy(a.until) THEN Put(p3, "until", zulu_time(a.until)) ELSE p3
    IN  p4

\* a slip: the cursor never reaches the request
CurrentParamsNoCursor(p, next_cursor) == p

\* a slip: the cursor is kept where every invocation sees it
CurrentParamsSharedCursor(p, next_cursor) ==
    LET shared == IF Truthy(next_cursor) THEN next_cursor
                  ELSE IF Truthy(gen[1].next_cursor) THEN gen[1].next_cursor
                  ELSE gen[2].next_cursor
    IN  IF Truthy(shared) THEN Put(p, "nextCursor", shared) ELSE p

\* current_params = params.copy(), with nextCursor when the cursor is truthy
CurrentParams(p, next_cursor) ==
    IF Truthy(next_cursor) THEN Put(p, "nextCursor", next_cursor) ELSE p

\* activities = response_data.get("activities", [])
Activities(response_data) == Get(response_data, "activities", <<>>)

\* a slip: a page without activities is taken for the end
CursorOnlyWithActivities(response_data) ==
    IF "activities" \in DOMAIN response_data
    THEN Get(response_data, "cursor", None)
    ELSE None

\* next_cursor = response_data.get("cursor")
Cursor(response_data) == Get(response_data, "cursor", None)

\* the consumer calls get_activities(...): a generator object, nothing run
get_activities(i) ==
    /\ Quiet
    /\ i \in iters
    /\ \E a \in ActivityArgs :
        gen' = [gen EXCEPT ![i] = [NoGen EXCEPT !.state = "created", !.args = a]]
    /\ yielded' = [yielded EXCEPT ![i] = <<>>]
    /\ pageReqs' = [pageReqs EXCEPT ![i] = <<>>]
    /\ pages' = [pages EXCEPT ![i] = <<>>]
    /\ requests' = [requests EXCEPT ![i] = 0]
    /\ pulls' = [pulls EXCEPT ![i] = 0]
    /\ UNCHANGED <<clientVars, getVars, opRequests, bases>>

\* the top of the while loop, from frame g: build current_params, enter get
Fetch(i, g) ==
    LET current_params == CurrentParams(g.params, g.next_cursor)
    IN  /\ Len(pageReqs[i]) < MaxPages
        /\ gen' = [gen EXCEPT ![i] = [g EXCEPT !.state = "running"]]
        /\ pageReqs' = [pageReqs EXCEPT ![i] = Append(@, current_params)]
        /\ get("get_activities", ActivitiesPath(g.args.profile_id),
               SomeParams(current_params))

\* a variant with loop detection: a cursor equal to the one just sent ends
\* the iteration
AfterPageDetectLoop(i, g) ==
    LET next_cursor == Cursor(g.response_data)
        g2 == [g EXCEPT !.next_cursor = next_cursor]
    IN  IF ~Truthy(next_cursor) \/ next_cursor = g.next_cursor
        THEN /\ gen' = [gen EXCEPT ![i] = [g2 EXCEPT !.state = "finished"]]
             /\ pageReqs' = pageReqs
             /\ PopFrame
        ELSE Fetch(i, g2)

\* the for loop is exhausted, in frame g: read the cursor, break or loop
AfterPage(i, g) ==
    LET next_cursor == Cursor(g.response_data)
        g2 == [g EXCEPT !.next_cursor = next_cursor]
    IN  IF ~Truthy(next_cursor)
        THEN /\ gen' = [gen EXCEPT ![i] = [g2 EXCEPT !.state = "finished"]]
             /\ pageReqs' = pageReqs
             /\ PopFrame
        ELSE Fetch(i, g2)

\* the first next(): the body from its first line to the first call of get
Start(i) ==
    /\ Quiet
    /\ gen[i].state = "created"
    /\ LET a == gen[i].args
           p == FilterParams(a)
       IN  IF ~a.size.isNone /\ ~SizeInRange(a.size.value)
           THEN /\ gen' = [gen EXCEPT ![i] =
                            [@ EXCEPT !.state = "failed", !.error = "ValueError",
                                      !.params = p]]
                /\ UNCHANGED <<getVars, pageReqs>>
           ELSE Fetch(i, [gen[i] EXCEPT !.params =
                            IF a.size.isNone THEN p ELSE Put(p, "size", a.size.value)])
    /\ pulls' = [pulls EXCEPT ![i] = @ + 1]
    /\ UNCHANGED <<clientVars, opRequests, requests, yielded, pages, bases>>

\* get came back inside the generator: an exception ends the generator; a
\* value is the page, whose first record is yielded if it has one
PageReturn(i) ==
    /\ gen[i].state = "running"
    /\ pc \in Terminal
    /\ IF pc # "SUCCESS"
       THEN /\ gen' = [gen EXCEPT ![i] = [@ EXCEPT !.state = "failed", !.error = pc]]
            /\ PopFrame
            /\ UNCHANGED <<yielded, pageReqs, pages>>
       ELSE LET g == [gen[i] EXCEPT !.response_data = result,
                                    !.activities = Activities(result),
                                    !.idx = 0]
            IN  /\ pages' = [pages EXCEPT ![i] = Append(@, result)]
                /\ IF g.activities # <<>>
                   THEN /\ gen' = [gen EXCEPT ![i] =
                                    [g EXCEPT !.state = "suspended", !.idx = 1]]
                        /\ yielded' = [yielded EXCEPT ![i] = Append(@, g.activities[1])]
                        /\ PopFrame
                        /\ pageReqs' = pageReqs
                   ELSE /\ AfterPage(i, g)
                        /\ yielded' = yielded
    /\ UNCHANGED <<clientVars, opRequests, requests, pulls, bases>>

\* a slip: the next page is fetched as soon as the last record of a page is
\* being handed over, before the consumer asks for more
ResumePrefetch(i) ==
    /\ Quiet
    /\ gen[i].state = "suspended"
    /\ LET g == gen[i]
       IN  IF g.idx < Len(g.activities)
           THEN /\ yielded' = [yielded EXCEPT ![i] = Append(@, g.activities[g.idx + 1])]
                /\ IF g.idx + 1 = Len(g.activities) /\ Truthy(Cursor(g.response_data))
                   THEN AfterPage(i, [g EXCEPT !.idx = g.idx + 1])
                   ELSE /\ gen' = [gen EXCEPT ![i] = [g EXCEPT !.idx = g.idx + 1]]
                        /\ UNCHANGED <<getVars, pageReqs>>
           ELSE /\ AfterPage(i, g)
                /\ yielded' = yielded
    /\ pulls' = [pulls EXCEPT ![i] = @ + 1]
    /\ UNCHANGED <<clientVars, opRequests, requests, pages, bases>>

\* a later next(): from the yield to the next record, or past the page
Resume(i) ==
    /\ Quiet
    /\ gen[i].state = "suspended"
    /\ LET g == gen[i]
       IN  IF g.idx < Len(g.activities)
           THEN /\ gen' = [gen EXCEPT ![i] = [g EXCEPT !.idx = g.idx + 1]]
                /\ yielded' = [yielded EXCEPT ![i] = Append(@, g.activities[g.idx + 1])]
                /\ UNCHANGED <<getVars, pageReqs>>
           ELSE /\ AfterPage(i, g)
                /\ yielded' = yielded
    /\ pulls' = [pulls EXCEPT ![i] = @ + 1]
    /\ UNCHANGED <<clientVars, opRequests, requests, pages, bases>>

-----------------------------------------------------------------------------

\* the client after __init__, no operation begun
Boot ==
    /\ production \in BOOLEAN
    /\ api_key \in ApiKeys
    /\ signing_key \in SigningKeys
    /\ caller = "none"
    /\ pc = "IDLE"
    /\ url = Url("")
    /\ params = EmptyDict
    /\ headers = EmptyDict
    /\ resp = NoResp
    /\ resp1 = NoResp
    /\ sent = <<>>
    /\ signed = <<>>
    /\ result = NoResult
    /\ opRequests = 0
    /\ gen = [i \in Iters |-> NoGen]
    /\ yielded = [i \in Iters |-> <<>>]
    /\ pageReqs = [i \in Iters |-> <<>>]
    /\ pages = [i \in Iters |-> <<>>]
    /\ requests = [i \in Iters |-> 0]
    /\ pulls = [i \in Iters |-> 0]
    /\ bases = {}

Init == Boot /\ iters = {1} /\ server = "any"

Next ==
    \/ get_current_user
    \/ get_borderless_accounts
    \/ get_transfer_by_id
    \/ SendOriginal
    \/ SignAndReplay
    \/ TokenMissing
    \/ Finish
    \/ Return
    \/ \E i \in Iters : get_activities(i)
    \/ \E i \in Iters : Start(i)
    \/ \E i \in Iters : PageReturn(i)
    \/ \E i \in Iters : Resume(i)

Spec == Init /\ [][Next]_vars

-----------------------------------------------------------------------------
(* The properties.  They name the SCA challenge, the status classes and    *)
(* the flattening of pages on their own, apart from the client's code.     *)

IsChallenge(r) ==
    /\ r.status_code = 403
    /\ "x-2fa-approval-result" \in DOMAIN r.headers
    /\ r.headers["x-2fa-approval-result"] = "REJECTED"

HasToken(r) == "x-2fa-approval" \in DOMAIN r.headers

Is2xx(r) == 200 <= r.status_code /\ r.status_code <= 299

HeaderIs(h, k, v) == k \in DOMAIN h /\ h[k] = v

\* get is at its end: it returns result or raises
AtEnd == pc \in Terminal

\* the end of a call is that of resp.json() on response r: its value, or
\* its decoding error when the body is no JSON
EndsWithJsonOf(r) ==
    IF r.body.json THEN pc = "SUCCESS" /\ result = r.body.data
    ELSE pc = "JSON_ERROR"

\* C1: a call whose first response is an SCA challenge and whose replay is
\* answered 2xx ends with the parsed body of the replay, after exactly one
\* signer invocation and exactly two requests, the second carrying
\* x-2fa-approval = the first response's token and
\* x-signature = sign(signing_key, token).
C1_ReplaySuccess ==
    (AtEnd /\ IsChallenge(resp1) /\ Is2xx(resp)) =>
        /\ Len(sent) = 2
        /\ signed = << <<signing_key, resp1.headers["x-2fa-approval"]>> >>
        /\ HeaderIs(sent[2].headers, "x-2fa-approval", resp1.headers["x-2fa-approval"])
        /\ HeaderIs(sent[2].headers, "x-signature",
                    sign_approval_token(signing_key, resp1.headers["x-2fa-approval"]))
        /\ EndsWithJsonOf(resp)

C1_Witness ==
    /\ pc = "SUCCESS"
    /\ IsChallenge(resp1)
    /\ resp1.headers["x-2fa-approval"] = "t2"
    /\ resp.status_code = 200
    /\ Len(sent) = 2
    /\ result = [id |-> "7"]

\* C2: a call whose first response is no challenge and is 2xx ends with the
\* parsed body of that response, after exactly one request, no replay and
\* no signer invocation.
C2_DirectSuccess ==
    (AtEnd /\ ~IsChallenge(resp1) /\ Is2xx(resp1)) =>
        /\ Len(sent) = 1
        /\ signed = <<>>
        /\ resp = resp1
        /\ EndsWithJsonOf(resp1)

C2_Witness ==
    /\ pc = "SUCCESS"
    /\ resp1.status_code = 200
    /\ HeaderIs(resp1.headers, "x-2fa-approval-result", "REJECTED")
    /\ HasToken(resp1)
    /\ Len(sent) = 1
    /\ result = [id |-> "7"]

\* C3: the first response leads into the sign-and-replay step exactly when
\* it is 403 with x-2fa-approval-result = REJECTED (the step then replays,
\* or fails at reading the token); a 403 with the header absent or
\* different causes no replay and no signer call and ends in the generic
\* HTTP error.
C3_SoleTrigger ==
    /\ (pc = "REPLAYED" \/ Len(sent) >= 2 \/ signed # <<>> \/ pc = "KEY_ERROR")
           => IsChallenge(resp1)
    /\ (AtEnd /\ IsChallenge(resp1)) =>
           IF HasToken(resp1) THEN Len(sent) = 2 /\ Len(signed) = 1
           ELSE pc = "KEY_ERROR"
    /\ (AtEnd /\ resp1.status_code = 403 /\ ~IsChallenge(resp1)) =>
           /\ Len(sent) = 1
           /\ signed = <<>>
           /\ pc = "HTTP_ERROR"

C3_Witness ==
    /\ pc = "HTTP_ERROR"
    /\ resp1.status_code = 403
    /\ HeaderIs(resp1.headers, "x-2fa-approval-result", "APPROVED")
    /\ HasToken(resp1)
    /\ Len(sent) = 1
    /\ signed = <<>>

\* C4: when the replay is answered 400, get ends in
\* WiseInvalidPublicKeyError (REJECTED_SCA) whatever the body and headers
\* of that response, and has sent no third request.
C4_Replay400 ==
    (AtEnd /\ Len(sent) >= 2 /\ resp.status_code = 400) =>
        /\ pc = "REJECTED_SCA"
        /\ Len(sent) = 2

C4_Witness ==
    /\ pc = "REJECTED_SCA"
    /\ resp.status_code = 400
    /\ resp.body = TextBody
    /\ HeaderIs(resp.headers, "x-2fa-approval-result", "REJECTED")
    /\ Len(sent) = 2

\* C5: get ends in WiseInvalidPublicKeyError only after a signed replay
\* that was answered 400; a first response with status 400 ends in the
\* generic HTTP error.
C5_OnlyReplay400 ==
    /\ pc = "REJECTED_SCA" =>
        /\ IsChallenge(resp1)
        /\ Len(sent) = 2
        /\ Len(signed) = 1
        /\ "x-signature" \in DOMAIN sent[2].headers
        /\ resp.status_code = 400
    /\ (AtEnd /\ resp1.status_code = 400) =>
        /\ pc = "HTTP_ERROR"
        /\ Len(sent) = 1

C5_Witness ==
    /\ pc = "HTTP_ERROR"
    /\ resp1.status_code = 400
    /\ HeaderIs(resp1.headers, "x-2fa-approval-result", "REJECTED")
    /\ Len(sent) = 1

\* the order of the per-call machine; IDLE is no call at all
Rank(state) ==
    CASE state = "IDLE" -> 0
      [] state = "INITIAL" -> 1
      [] state = "RESPONDED" -> 2
      [] state = "REPLAYED" -> 3
      [] OTHER -> 4

\* within one call the machine only moves forward, and only such a move
\* sends a request or invokes the signer
ForwardOnly ==
    pc \in Running =>
        /\ Rank(pc') >= Rank(pc)
        /\ (pc' = pc => sent' = sent /\ signed' = signed)

\* C6: a replay that is itself answered by an SCA challenge is not signed or
\* resent again: the call has sent exactly two requests and invoked the
\* signer once, and ends in the generic HTTP error for that second
\* response; no state of INITIAL -> RESPONDED -> REPLAYED is entered twice.
C6_NoSecondReplay ==
    /\ [](/\ Len(sent) <= 2
          /\ Len(signed) <= 1
          /\ (AtEnd /\ Len(sent) >= 2 /\ IsChallenge(resp)) =>
                (Len(sent) = 2 /\ Len(signed) = 1 /\ pc = "HTTP_ERROR"))
    /\ [][ForwardOnly]_vars

C6_Witness ==
    /\ pc = "HTTP_ERROR"
    /\ IsChallenge(resp1)
    /\ IsChallenge(resp)
    /\ HasToken(resp)
    /\ Len(sent) = 2
    /\ Len(signed) = 1

\* the final response of a call that has ended in one of the three outcomes
\* the status decides
StatusDecided == pc \in {"SUCCESS", "REJECTED_SCA", "HTTP_ERROR"}

IsReplay400 == Len(sent) = 2 /\ resp.status_code = 400

C8_Original ==
    /\ opRequests <= 2
    /\ \A i \in Iters : requests[i] <= 2

\* C8 as amended: every call of get, and so every endpoint method that is
\* one call of get, issues at most two requests (the original and at most
\* one replay); get_activities issues at most two requests for each page
\* it asks for, with no bound on the number of pages.
C8_TwoPerCall ==
    /\ Len(sent) <= 2
    /\ opRequests <= 2
    /\ caller \notin {"none", "get_activities"} => opRequests = Len(sent)
    /\ \A i \in Iters : requests[i] <= 2 * Len(pageReqs[i])

C8_Witness ==
    \E i \in Iters :
        /\ requests[i] = 2 * Len(pageReqs[i])
        /\ requests[i] > 2
        /\ gen[i].state = "finished"

\* C9: the replay equals the original request in method (GET), URL, query
\* parameters and authorization header (Bearer api_key); its headers are
\* the original's plus x-2fa-approval and x-signature, nothing else.
C9_ReplayIdentical ==
    /\ Len(sent) >= 1 =>
        /\ sent[1].method = "GET"
        /\ sent[1].url = url
        /\ sent[1].headers = [authorization |-> Bearer(api_key)]
    /\ Len(sent) >= 2 =>
        /\ sent[2].method = sent[1].method
        /\ sent[2].url = sent[1].url
        /\ sent[2].params = sent[1].params
        /\ DOMAIN sent[2].headers =
               DOMAIN sent[1].headers \cup {"x-2fa-approval", "x-signature"}
        /\ \A k \in DOMAIN sent[1].headers : sent[2].headers[k] = sent[1].headers[k]

C9_Witness ==
    /\ Len(sent) = 2
    /\ caller = "get_borderless_accounts"
    /\ sent[2].params = [profileId |-> "42"]
    /\ sent[2].url.path = "/v1/borderless-accounts"
    /\ HeaderIs(sent[2].headers, "authorization", Bearer(api_key))

RECURSIVE Flatten(_)
\* the pages' activities lists, concatenated in page order
Flatten(ps) ==
    IF ps = <<>> THEN <<>>
    ELSE (IF "activities" \in DOMAIN Head(ps) THEN Head(ps)["activities"] ELSE <<>>)
         \o Flatten(Tail(ps))

PageCursorGiven(page) ==
    "cursor" \in DOMAIN page /\ page["cursor"] \notin {None, ""}

IsPrefix(a, b) == Len(a) <= Len(b) /\ a = SubSeq(b, 1, Len(a))

\* C10: a generator consumed to its end over pages p1..pn, of which all but
\* the last carry a cursor, has yielded exactly the concatenation of the
\* pages' activities in page and in-page order, by exactly n calls of get:
\* the first without nextCursor, the k-th with nextCursor = cursor of page
\* k-1.  Before the end, what was yielded is a prefix of that concatenation.
C10_Flattening ==
    \A i \in Iters :
        /\ IsPrefix(yielded[i], Flatten(pages[i]))
        /\ gen[i].state = "finished" =>
            LET n == Len(pages[i])
            IN  /\ n >= 1
                /\ yielded[i] = Flatten(pages[i])
                /\ Len(pageReqs[i]) = n
                /\ "nextCursor" \notin DOMAIN pageReqs[i][1]
                /\ \A k \in 2..n :
                      /\ PageCursorGiven(pages[i][k - 1])
                      /\ HeaderIs(pageReqs[i][k], "nextCursor", pages[i][k - 1]["cursor"])
                /\ ~PageCursorGiven(pages[i][n])

C10_Witness ==
    /\ gen[1].state = "finished"
    /\ Len(pages[1]) = 2
    /\ pages[1][1] = [activities |-> <<"b", "a">>, cursor |-> "c2"]
    /\ yielded[1] = <<"b", "a", "a">>
    /\ requests[1] = 3

\* one consumer, one generator: the consumer creates it and then only
\* calls next() on it, again and again
NextPull ==
    \/ SendOriginal
    \/ SignAndReplay
    \/ TokenMissing
    \/ Finish
    \/ (gen[1].state = "none" /\ get_activities(1))
    \/ Start(1)
    \/ PageReturn(1)
    \/ Resume(1)

\* the consumer keeps pulling, the server keeps answering
SpecPull == Init /\ [][NextPull]_vars /\ WF_vars(NextPull)

\* the records of the first n pages a generator received
FlattenFirst(i, n) == Flatten(SubSeq(pages[i], 1, n))

\* what holds of generator i at every moment: no request before the first
\* next(); a call of get runs only inside a pending next(), with every
\* record fetched so far handed over; between two next() the last record
\* handed over lies in the last page asked for
PullDriven(i) ==
    /\ gen[i].state \in {"none", "created"} =>
          (requests[i] = 0 /\ pageReqs[i] = <<>> /\ pulls[i] = 0)
    /\ Len(yielded[i]) <= pulls[i]
    /\ gen[i].state = "running" =>
          /\ pulls[i] = Len(yielded[i]) + 1
          /\ Len(pageReqs[i]) = Len(pages[i]) + 1
          /\ yielded[i] = Flatten(pages[i])
    /\ gen[i].state = "suspended" =>
          /\ pulls[i] = Len(yielded[i])
          /\ Len(pageReqs[i]) = Len(pages[i])
          /\ Len(yielded[i]) > Len(FlattenFirst(i, Len(pages[i]) - 1))
          /\ requests[i] <= 2 * Len(pages[i])

\* a step that asks for a page, or sends a request, of generator i
PageAskedOnDemand(i) ==
    /\ Len(pageReqs'[i]) > Len(pageReqs[i]) =>
          /\ yielded'[i] = yielded[i]
          /\ yielded[i] = Flatten(pages'[i])
          /\ pulls'[i] = Len(yielded[i]) + 1
          /\ Len(pageReqs'[i]) = Len(pages'[i]) + 1
    /\ requests'[i] > requests[i] =>
          (gen[i].state = "running" /\ pulls[i] = Len(yielded[i]) + 1)

\* C11: get_activities never prefetches.  Nothing is requested before the
\* consumer's first next(); page k+1 is asked for only inside a next() that
\* found every record of pages 1..k handed over; a consumer that stops
\* after r records has caused requests for no page beyond the one holding
\* its r-th record.
C11_NoPrefetch ==
    /\ [](\A i \in Iters : PullDriven(i))
    /\ [][\A i \in Iters : PageAskedOnDemand(i)]_vars

C11_Witness ==
    /\ gen[1].state = "running"
    /\ pc = "INITIAL"
    /\ Len(pageReqs[1]) = 2
    /\ yielded[1] = <<"b", "a">>
    /\ pulls[1] = 3

LastPageEnds(i) ==
    Len(pages[i]) > 0 /\ ~PageCursorGiven(pages[i][Len(pages[i])])

\* the pages generator i received: only the last can be without cursor, and
\* after such a page nothing more is asked for
EndsAtFirstCursorlessPage(i) ==
    /\ \A k \in 1..(Len(pages[i]) - 1) : PageCursorGiven(pages[i][k])
    /\ LastPageEnds(i) =>
          /\ gen[i].state \in {"suspended", "finished"}
          /\ Len(pageReqs[i]) = Len(pages[i])
          /\ requests[i] <= 2 * Len(pages[i])
          /\ IsPrefix(yielded[i], Flatten(pages[i]))
    /\ gen[i].state = "finished" =>
          (LastPageEnds(i) /\ yielded[i] = Flatten(pages[i]))

\* once at its end, generator i yields nothing and sends nothing
EndIsFinal(i) ==
    (gen[i].state = "finished" /\ gen'[i].state \notin {"none", "created"}) =>
        /\ gen'[i] = gen[i]
        /\ yielded'[i] = yielded[i]
        /\ pageReqs'[i] = pageReqs[i]
        /\ requests'[i] = requests[i]

\* C12: the sequence ends at the first page whose cursor is absent, null or
\* empty: after that page's records nothing more is yielded or requested;
\* and once such a page has arrived, a consumer that keeps pulling reaches
\* the end of the sequence.
C12_Termination ==
    /\ [](\A i \in Iters : EndsAtFirstCursorlessPage(i))
    /\ [][\A i \in Iters : EndIsFinal(i)]_vars
    /\ \A i \in Iters : LastPageEnds(i) ~> (gen[i].state = "finished")

C12_Witness ==
    /\ gen[1].state = "finished"
    /\ Len(pages[1]) = 2
    /\ pages[1][2] = [activities |-> <<"b", "a">>, cursor |-> ""]
    /\ yielded[1] = <<"a", "b", "a">>

\* C13: a page body without the activities key gives no record, and its
\* cursor is followed all the same: the next call of get carries
\* nextCursor = that cursor if it is non-empty, and the sequence ends there
\* if it is absent, null or empty.
C13_MissingActivities ==
    \A i \in Iters : \A k \in 1..Len(pages[i]) :
        "activities" \notin DOMAIN pages[i][k] =>
            /\ k = Len(pages[i]) => yielded[i] = FlattenFirst(i, k - 1)
            /\ IF PageCursorGiven(pages[i][k])
               THEN /\ Len(pageReqs[i]) >= k + 1
                    /\ HeaderIs(pageReqs[i][k + 1], "nextCursor", pages[i][k]["cursor"])
               ELSE /\ k = Len(pages[i])
                    /\ Len(pageReqs[i]) = k
                    /\ gen[i].state = "finished"

C13_Witness ==
    /\ pages[1] = << [cursor |-> "c1"] >>
    /\ Len(pageReqs[1]) = 2
    /\ HeaderIs(pageReqs[1][2], "nextCursor", "c1")
    /\ yielded[1] = <<>>
    /\ gen[1].state = "running"

\* the size argument is given and lies outside [1, 100]
SizeOutside(a) == ~a.size.isNone /\ (a.size.value < 1 \/ a.size.value > 100)

\* C14: with a size outside [1, 100] (0 and negative sizes included) the
\* invocation fails with ValueError as soon as its body runs and never
\* issues a request; with a size in [1, 100], or none, ValueError is never
\* raised and the size given is sent with every page request.
C14_SizeValidation ==
    \A i \in Iters :
        gen[i].state # "none" =>
            LET a == gen[i].args
            IN  /\ SizeOutside(a) =>
                    /\ requests[i] = 0
                    /\ pageReqs[i] = <<>>
                    /\ yielded[i] = <<>>
                    /\ IF pulls[i] = 0 THEN gen[i].state = "created"
                       ELSE gen[i].state = "failed" /\ gen[i].error = "ValueError"
                /\ ~SizeOutside(a) =>
                    /\ gen[i].error # "ValueError"
                    /\ pulls[i] > 0 => Len(pageReqs[i]) > 0
                    /\ \A k \in 1..Len(pageReqs[i]) :
                          IF a.size.isNone THEN "size" \notin DOMAIN pageReqs[i][k]
                          ELSE HeaderIs(pageReqs[i][k], "size", a.size.value)

C14_Witness ==
    /\ gen[1].state = "failed"
    /\ gen[1].error = "ValueError"
    /\ gen[1].args.size = Some(0)
    /\ pulls[1] = 1
    /\ requests[1] = 0
    /\ bases # {}

\* C15: the size validation fails in the call of get_activities itself: no
\* generator is ever handed to the caller for a size outside [1, 100].
\* (get_activities is a generator function: the call runs none of its body,
\* so this does not hold.)
C15_ImmediateValidation ==
    \A i \in Iters :
        gen[i].state = "created" => ~SizeOutside(gen[i].args)

HostOf(p) ==
    IF p THEN "https://api.transferwise.com"
    ELSE "https://api.sandbox.transferwise.tech"

\* C17: every request of a client (originals, replays, page requests) goes
\* to the base URL its production flag selects; no two requests of the
\* client go to different base URLs; no operation changes the flag.
C17_OneBaseUrl ==
    /\ [](/\ bases \subseteq {HostOf(production)}
          /\ \A k \in 1..Len(sent) : sent[k].url.base = HostOf(production)
          /\ pc \in Running => url.base = HostOf(production))
    /\ [][production' = production]_vars

C17_Witness ==
    /\ production
    /\ caller = "get_activities"
    /\ Len(pageReqs[1]) = 2
    /\ Len(sent) = 2
    /\ bases = {"https://api.transferwise.com"}

\* one generator, pulled again and again, against the server whose pages
\* all carry the cursor "c1"
InitLoop == Boot /\ iters = {1} /\ server = "same_cursor"

NextLoop ==
    \/ SendOriginal \/ Finish
    \/ (gen[1].state = "none" /\ get_activities(1))
    \/ Start(1) \/ PageReturn(1) \/ Resume(1)

SpecLoop == InitLoop /\ [][NextLoop]_vars /\ WF_vars(NextLoop)

\* C18: against a server that gives the same non-empty cursor with every
\* page, an iteration whose consumer keeps pulling never ends and never
\* fails (but for the ValueError of a bad size, before the first page):
\* every page request after the first carries that same nextCursor, and
\* the page requests go on as far as the model follows them.
C18_NoLoopDetection ==
    /\ [](/\ gen[1].state # "finished"
          /\ gen[1].state = "failed" => gen[1].error = "ValueError"
          /\ \A k \in 2..Len(pageReqs[1]) : HeaderIs(pageReqs[1][k], "nextCursor", "c1")
          /\ \A k \in 1..Len(pages[1]) : PageCursorGiven(pages[1][k]))
    /\ (gen[1].state = "created" /\ ~SizeOutside(gen[1].args))
           ~> (Len(pageReqs[1]) = MaxPages)

C18_Witness ==
    /\ server = "same_cursor"
    /\ Len(pageReqs[1]) = MaxPages
    /\ Len(pages[1]) = MaxPages
    /\ pages[1][1] = pages[1][2]
    /\ gen[1].state = "suspended"
    /\ gen[1].idx = Len(gen[1].activities)

\* C19: a call of get whose first response is an SCA challenge without the
\* x-2fa-approval header fails at the token lookup: it ends with KeyError
\* (neither WiseInvalidPublicKeyError nor the HTTP error), the signer was
\* not invoked, the one request sent is the original, no value is returned.
C19_TokenMissing ==
    (resp1 # NoResp /\ IsChallenge(resp1) /\ ~HasToken(resp1)) =>
        /\ pc \in {"RESPONDED", "KEY_ERROR"}
        /\ AtEnd => pc = "KEY_ERROR"
        /\ pc \notin {"REJECTED_SCA", "HTTP_ERROR", "SUCCESS"}
        /\ signed = <<>>
        /\ Len(sent) = 1
        /\ resp = resp1
        /\ result = NoResult

C19_Witness ==
    /\ pc = "KEY_ERROR"
    /\ caller = "get_transfer_by_id"
    /\ IsChallenge(resp1)
    /\ ~HasToken(resp1)
    /\ Len(sent) = 1
    /\ signed = <<>>

\* two generators of one client, invoked, pulled and invoked anew in any
\* interleaving
InitTwo == Boot /\ iters = {1, 2} /\ server = "small"

NextTwo ==
    \/ SendOriginal
    \/ Finish
    \/ \E i \in Iters : get_activities(i)
    \/ \E i \in Iters : Start(i)
    \/ \E i \in Iters : PageReturn(i)
    \/ \E i \in Iters : Resume(i)

SpecTwo == InitTwo /\ [][NextTwo]_vars

\* the filter an argument list stands for: a key is sent iff its argument
\* is neither None nor empty
FilterKeysOf(a) ==
    {k \in {"monetaryResourceType", "status", "since", "until", "size"} :
        \/ k = "monetaryResourceType" /\ a.monetary_resource_type \notin {None, ""}
        \/ k = "status" /\ a.status \notin {None, ""}
        \/ k = "since" /\ a.since \notin {None, ""}
        \/ k = "until" /\ a.until \notin {None, ""}
        \/ k = "size" /\ ~a.size.isNone}

\* the cursor chain and the records of iterator i depend on its own
\* arguments and its own pages only
OwnChain(i) ==
    /\ Len(pageReqs[i]) >= 1 =>
          /\ DOMAIN pageReqs[i][1] = FilterKeysOf(gen[i].args)
          /\ "nextCursor" \notin DOMAIN pageReqs[i][1]
    /\ \A k \in 2..Len(pageReqs[i]) :
          /\ k - 1 <= Len(pages[i])
          /\ PageCursorGiven(pages[i][k - 1])
          /\ pageReqs[i][k] = Put(pageReqs[i][1], "nextCursor", pages[i][k - 1]["cursor"])
    /\ IsPrefix(yielded[i], Flatten(pages[i]))
    /\ gen[i].state \in {"finished", "failed"} => yielded[i] = Flatten(pages[i])

\* C20: the cursor belongs to one invocation of get_activities.  Whatever
\* other invocations did, before or in between, the first page request of
\* an invocation has no nextCursor, every later one differs from the first
\* in nextCursor only, which is the cursor of the invocation's own previous
\* page, and the records yielded are those of the invocation's own pages.
C20_CursorLocal ==
    \A i \in Iters : gen[i].state # "none" => OwnChain(i)

C20_Witness ==
    /\ iters = {1, 2}
    /\ gen[1].state = "suspended" /\ gen[2].state = "running"
    /\ Len(pageReqs[1]) = 2 /\ Len(pageReqs[2]) = 1
    /\ gen[1].next_cursor = "c1"
    /\ HeaderIs(pageReqs[1][2], "nextCursor", "c1")
    /\ gen[1].args # gen[2].args
    /\ yielded[2] = <<>>
    /\ pulls[1] >= 3

====
